---- MODULE Spec2Model ----
(***************************************************************************)
(* Model of the transformer chain of main.py: the DataFrameTransformer     *)
(* classes (ListTransformer, SerbianCyrillicToLatinTransformer,            *)
(* SpellCheckTransformer, CapitalizeTransformer, Replacement,              *)
(* WordOccurence, Column), the constant mapping and the two processor      *)
(* chains of the driver.                                                   *)
(*                                                                         *)
(* A text (a Python str) is a sequence of characters.  A character is a    *)
(* one-character string for printable ASCII and "U+XXXX" (its code point)  *)
(* for every other character.                                              *)
(***************************************************************************)
EXTENDS Integers, Sequences, FiniteSets, TLC

VARIABLES
    text,          \* the str a text-level method currently holds
    text0,         \* the str it was first called with
    calls,         \* how often the method has been applied to it
    replacements,  \* Replacement._replacements (an ordered dict, as pairs)
    data,          \* the DataFrame threaded through ListTransformer.__call__
    data0,         \* the DataFrame ListTransformer.__call__ was called with
    prev,          \* the DataFrame the last processor was called with
    processors,    \* ListTransformer._processors
    pc,            \* index of the next processor of the for loop
    stdout,        \* what the processors have printed, in order
    pspell         \* the suggestion source of SpellCheckTransformer

vars == <<text, text0, calls, replacements, data, data0, prev, processors, pc, stdout, pspell>>

textVars == <<text, text0, calls, replacements>>

frameVars == <<data, data0, prev, processors, pc, stdout, pspell>>

(***************************************************************************)
(* Bounds of the model.                                                    *)
(***************************************************************************)
MaxTranslitLen == 2

MaxSentenceLen == 4

MaxTextLen == 3

MaxRules == 2

MaxRows == 2

\* All texts over alphabet A of at most n characters.
TextsUpTo(A, n) == UNION {[1..m -> A] : m \in 0..n}

\* The values of a sequence.
Range(s) == {s[j] : j \in 1..Len(s)}

RECURSIVE Flatten(_)
\* The concatenation of a sequence of texts ("".join).
Flatten(ss) == IF ss = <<>> THEN <<>> ELSE Head(ss) \o Flatten(Tail(ss))

(***************************************************************************)
(* SerbianCyrillicToLatinTransformer._serbian_cyrillic_to_latin            *)
(***************************************************************************)
cyrillic_to_latin ==
       ("U+0430" :> <<"a">>)
    @@ ("U+0431" :> <<"b">>)
    @@ ("U+0432" :> <<"v">>)
    @@ ("U+0433" :> <<"g">>)
    @@ ("U+0434" :> <<"d">>)
    @@ ("U+0452" :> <<"U+0111">>)
    @@ ("U+0435" :> <<"e">>)
    @@ ("U+0436" :> <<"U+017E">>)
    @@ ("U+0437" :> <<"z">>)
    @@ ("U+0438" :> <<"i">>)
    @@ ("U+0458" :> <<"j">>)
    @@ ("U+043A" :> <<"k">>)
    @@ ("U+043B" :> <<"l">>)
    @@ ("U+0459" :> <<"l", "j">>)
    @@ ("U+043C" :> <<"m">>)
    @@ ("U+043D" :> <<"n">>)
    @@ ("U+045A" :> <<"n", "j">>)
    @@ ("U+043E" :> <<"o">>)
    @@ ("U+043F" :> <<"p">>)
    @@ ("U+0440" :> <<"r">>)
    @@ ("U+0441" :> <<"s">>)
    @@ ("U+0442" :> <<"t">>)
    @@ ("U+045B" :> <<"U+0107">>)
    @@ ("U+0443" :> <<"u">>)
    @@ ("U+0444" :> <<"f">>)
    @@ ("U+0445" :> <<"h">>)
    @@ ("U+0446" :> <<"c">>)
    @@ ("U+0447" :> <<"U+010D">>)
    @@ ("U+045F" :> <<"d", "U+017E">>)
    @@ ("U+0448" :> <<"U+0161">>)
    @@ ("U+0410" :> <<"A">>)
    @@ ("U+0411" :> <<"B">>)
    @@ ("U+0412" :> <<"V">>)
    @@ ("U+0413" :> <<"G">>)
    @@ ("U+0414" :> <<"D">>)
    @@ ("U+0402" :> <<"U+0110">>)
    @@ ("U+0415" :> <<"E">>)
    @@ ("U+0416" :> <<"U+017D">>)
    @@ ("U+0417" :> <<"Z">>)
    @@ ("U+0418" :> <<"I">>)
    @@ ("U+0408" :> <<"J">>)
    @@ ("U+041A" :> <<"K">>)
    @@ ("U+041B" :> <<"L">>)
    @@ ("U+0409" :> <<"L", "j">>)
    @@ ("U+041C" :> <<"M">>)
    @@ ("U+041D" :> <<"N">>)
    @@ ("U+040A" :> <<"N", "j">>)
    @@ ("U+041E" :> <<"O">>)
    @@ ("U+041F" :> <<"P">>)
    @@ ("U+0420" :> <<"R">>)
    @@ ("U+0421" :> <<"S">>)
    @@ ("U+0422" :> <<"T">>)
    @@ ("U+040B" :> <<"U+0106">>)
    @@ ("U+0423" :> <<"U">>)
    @@ ("U+0424" :> <<"F">>)
    @@ ("U+0425" :> <<"H">>)
    @@ ("U+0426" :> <<"C">>)
    @@ ("U+0427" :> <<"U+010C">>)
    @@ ("U+040F" :> <<"D", "U+017E">>)
    @@ ("U+0428" :> <<"U+0160">>)

\* cyrillic_to_latin.get(char, char)
LookupTypo(char) ==
    IF char = "U+045A" THEN <<"U+043D", "j">>
    ELSE IF char \in DOMAIN cyrillic_to_latin THEN cyrillic_to_latin[char] ELSE <<char>>

Lookup(char) ==
    IF char \in DOMAIN cyrillic_to_latin THEN cyrillic_to_latin[char] ELSE <<char>>

\* "".join(cyrillic_to_latin.get(char, char) for char in text)
serbian_cyrillic_to_latin(t) == Flatten([j \in 1..Len(t) |-> Lookup(t[j])])

(***************************************************************************)
(* str.capitalize, str.split(sep), str.join, str.replace, str.split()      *)
(***************************************************************************)
\* Lower-case and title-case forms of the characters that have one (Unicode
\* character database, as str.lower and str.title return them).
unicode_lower ==
       ("A" :> "a")
    @@ ("B" :> "b")
    @@ ("C" :> "c")
    @@ ("D" :> "d")
    @@ ("E" :> "e")
    @@ ("F" :> "f")
    @@ ("G" :> "g")
    @@ ("H" :> "h")
    @@ ("I" :> "i")
    @@ ("J" :> "j")
    @@ ("K" :> "k")
    @@ ("L" :> "l")
    @@ ("M" :> "m")
    @@ ("N" :> "n")
    @@ ("O" :> "o")
    @@ ("P" :> "p")
    @@ ("Q" :> "q")
    @@ ("R" :> "r")
    @@ ("S" :> "s")
    @@ ("T" :> "t")
    @@ ("U" :> "u")
    @@ ("V" :> "v")
    @@ ("W" :> "w")
    @@ ("X" :> "x")
    @@ ("Y" :> "y")
    @@ ("Z" :> "z")
    @@ ("U+0106" :> "U+0107")
    @@ ("U+010C" :> "U+010D")
    @@ ("U+0110" :> "U+0111")
    @@ ("U+0160" :> "U+0161")
    @@ ("U+017D" :> "U+017E")
    @@ ("U+0402" :> "U+0452")
    @@ ("U+0408" :> "U+0458")
    @@ ("U+0409" :> "U+0459")
    @@ ("U+040A" :> "U+045A")
    @@ ("U+040B" :> "U+045B")
    @@ ("U+040F" :> "U+045F")
    @@ ("U+0410" :> "U+0430")
    @@ ("U+0411" :> "U+0431")
    @@ ("U+0412" :> "U+0432")
    @@ ("U+0413" :> "U+0433")
    @@ ("U+0414" :> "U+0434")
    @@ ("U+0415" :> "U+0435")
    @@ ("U+0416" :> "U+0436")
    @@ ("U+0417" :> "U+0437")
    @@ ("U+0418" :> "U+0438")
    @@ ("U+041A" :> "U+043A")
    @@ ("U+041B" :> "U+043B")
    @@ ("U+041C" :> "U+043C")
    @@ ("U+041D" :> "U+043D")
    @@ ("U+041E" :> "U+043E")
    @@ ("U+041F" :> "U+043F")
    @@ ("U+0420" :> "U+0440")
    @@ ("U+0421" :> "U+0441")
    @@ ("U+0422" :> "U+0442")
    @@ ("U+0423" :> "U+0443")
    @@ ("U+0424" :> "U+0444")
    @@ ("U+0425" :> "U+0445")
    @@ ("U+0426" :> "U+0446")
    @@ ("U+0427" :> "U+0447")
    @@ ("U+0428" :> "U+0448")
unicode_title ==
       ("a" :> <<"A">>)
    @@ ("b" :> <<"B">>)
    @@ ("c" :> <<"C">>)
    @@ ("d" :> <<"D">>)
    @@ ("e" :> <<"E">>)
    @@ ("f" :> <<"F">>)
    @@ ("g" :> <<"G">>)
    @@ ("h" :> <<"H">>)
    @@ ("i" :> <<"I">>)
    @@ ("j" :> <<"J">>)
    @@ ("k" :> <<"K">>)
    @@ ("l" :> <<"L">>)
    @@ ("m" :> <<"M">>)
    @@ ("n" :> <<"N">>)
    @@ ("o" :> <<"O">>)
    @@ ("p" :> <<"P">>)
    @@ ("q" :> <<"Q">>)
    @@ ("r" :> <<"R">>)
    @@ ("s" :> <<"S">>)
    @@ ("t" :> <<"T">>)
    @@ ("u" :> <<"U">>)
    @@ ("v" :> <<"V">>)
    @@ ("w" :> <<"W">>)
    @@ ("x" :> <<"X">>)
    @@ ("y" :> <<"Y">>)
    @@ ("z" :> <<"Z">>)
    @@ ("U+0107" :> <<"U+0106">>)
    @@ ("U+010D" :> <<"U+010C">>)
    @@ ("U+0111" :> <<"U+0110">>)
    @@ ("U+0149" :> <<"U+02BC", "N">>)
    @@ ("U+0161" :> <<"U+0160">>)
    @@ ("U+017E" :> <<"U+017D">>)
    @@ ("U+0430" :> <<"U+0410">>)
    @@ ("U+0431" :> <<"U+0411">>)
    @@ ("U+0432" :> <<"U+0412">>)
    @@ ("U+0433" :> <<"U+0413">>)
    @@ ("U+0434" :> <<"U+0414">>)
    @@ ("U+0435" :> <<"U+0415">>)
    @@ ("U+0436" :> <<"U+0416">>)
    @@ ("U+0437" :> <<"U+0417">>)
    @@ ("U+0438" :> <<"U+0418">>)
    @@ ("U+043A" :> <<"U+041A">>)
    @@ ("U+043B" :> <<"U+041B">>)
    @@ ("U+043C" :> <<"U+041C">>)
    @@ ("U+043D" :> <<"U+041D">>)
    @@ ("U+043E" :> <<"U+041E">>)
    @@ ("U+043F" :> <<"U+041F">>)
    @@ ("U+0440" :> <<"U+0420">>)
    @@ ("U+0441" :> <<"U+0421">>)
    @@ ("U+0442" :> <<"U+0422">>)
    @@ ("U+0443" :> <<"U+0423">>)
    @@ ("U+0444" :> <<"U+0424">>)
    @@ ("U+0445" :> <<"U+0425">>)
    @@ ("U+0446" :> <<"U+0426">>)
    @@ ("U+0447" :> <<"U+0427">>)
    @@ ("U+0448" :> <<"U+0428">>)
    @@ ("U+0452" :> <<"U+0402">>)
    @@ ("U+0458" :> <<"U+0408">>)
    @@ ("U+0459" :> <<"U+0409">>)
    @@ ("U+045A" :> <<"U+040A">>)
    @@ ("U+045B" :> <<"U+040B">>)
    @@ ("U+045F" :> <<"U+040F">>)

Lower(char) == IF char \in DOMAIN unicode_lower THEN unicode_lower[char] ELSE char

Title(char) == IF char \in DOMAIN unicode_title THEN unicode_title[char] ELSE <<char>>

\* s[0].upper() + s[1:]: the first character in title case, the rest as it is.
capitalize_first_only(s) ==
    IF s = <<>> THEN <<>> ELSE Title(s[1]) \o SubSeq(s, 2, Len(s))

\* str.capitalize(): the first character in title case, the rest in lower case.
capitalize(s) ==
    IF s = <<>> THEN <<>>
    ELSE Title(s[1]) \o [j \in 1..(Len(s) - 1) |-> Lower(s[j + 1])]

\* Whether sub occurs in s at position p.
At(s, sub, p) ==
    /\ p >= 1
    /\ p + Len(sub) - 1 <= Len(s)
    /\ SubSeq(s, p, p + Len(sub) - 1) = sub

RECURSIVE SplitFrom(_, _, _, _)
\* The segments of s from position start on, p being the scan position.
SplitFrom(s, sep, start, p) ==
    IF p + Len(sep) - 1 > Len(s) THEN <<SubSeq(s, start, Len(s))>>
    ELSE IF At(s, sep, p)
         THEN <<SubSeq(s, start, p - 1)>> \o SplitFrom(s, sep, p + Len(sep), p + Len(sep))
         ELSE SplitFrom(s, sep, start, p + 1)

\* s.split(sep) for a non-empty sep: leftmost matches, empty segments kept.
split(s, sep) == SplitFrom(s, sep, 1, 1)

RECURSIVE join(_, _)
\* sep.join(parts)
join(sep, parts) ==
    IF parts = <<>> THEN <<>>
    ELSE IF Len(parts) = 1 THEN parts[1]
    ELSE parts[1] \o sep \o join(sep, Tail(parts))

RECURSIVE ReplaceFrom(_, _, _, _)
ReplaceFrom(s, old, new, p) ==
    IF p > Len(s) THEN <<>>
    ELSE IF At(s, old, p) THEN new \o ReplaceFrom(s, old, new, p + Len(old))
    ELSE <<s[p]>> \o ReplaceFrom(s, old, new, p + 1)

RECURSIVE ReplaceFirstFrom(_, _, _, _)
ReplaceFirstFrom(s, old, new, p) ==
    IF p > Len(s) THEN <<>>
    ELSE IF At(s, old, p) THEN new \o SubSeq(s, p + Len(old), Len(s))
    ELSE <<s[p]>> \o ReplaceFirstFrom(s, old, new, p + 1)

\* s.replace(old, new, 1): the leftmost occurrence only.
str_replace_first(s, old, new) ==
    IF old = <<>> THEN new \o s ELSE ReplaceFirstFrom(s, old, new, 1)

\* s.replace(old, new): every non-overlapping occurrence, leftmost first; an
\* empty old matches before every character and at the end.
str_replace(s, old, new) ==
    IF old = <<>>
    THEN Flatten([j \in 1..Len(s) |-> new \o <<s[j]>>]) \o new
    ELSE ReplaceFrom(s, old, new, 1)

\* str.isspace for a character.
IsSpace(char) == char \in {" ", "\t", "\n"}

RECURSIVE WordsFrom(_, _, _)
\* The words of s from position p on, w being the word read so far.
WordsFrom(s, p, w) ==
    IF p > Len(s) THEN (IF w = <<>> THEN <<>> ELSE <<w>>)
    ELSE IF IsSpace(s[p])
         THEN (IF w = <<>> THEN <<>> ELSE <<w>>) \o WordsFrom(s, p + 1, <<>>)
         ELSE WordsFrom(s, p + 1, Append(w, s[p]))

\* s.split(): the maximal runs of non-whitespace characters.
words(s) == WordsFrom(s, 1, <<>>)

(***************************************************************************)
(* CapitalizeTransformer._correct                                          *)
(***************************************************************************)
PeriodSpace == <<".", " ">>

\* The same with the sentences split on "." and joined with ". ".
Capitalize_correct_period(sentence) ==
    LET corrected_sentence == capitalize(sentence)
        sentences == split(corrected_sentence, <<".">>)
        corrected_sentences == [j \in 1..Len(sentences) |-> capitalize(sentences[j])]
    IN  join(PeriodSpace, corrected_sentences)

Capitalize_correct(sentence) ==
    LET corrected_sentence == capitalize(sentence)
        sentences == split(corrected_sentence, PeriodSpace)
        corrected_sentences == [j \in 1..Len(sentences) |-> capitalize(sentences[j])]
    IN  join(PeriodSpace, corrected_sentences)

(***************************************************************************)
(* Replacement._correct                                                    *)
(***************************************************************************)
RECURSIVE ReplaceItems(_, _, _, _)
\* for k, v in self._replacements.items(): text = text.replace(k, v), for
\* the items lo..hi of the dict: the loop over lo..mid, then the loop over
\* mid+1..hi on its result.  (Halving, and comparing the first half's result
\* before going on, keeps the evaluation shallow for a dict of 241 items.)
ReplaceItems(rs, t, lo, hi) ==
    IF lo > hi THEN t
    ELSE IF lo = hi THEN str_replace(t, rs[lo][1], rs[lo][2])
    ELSE LET mid == (lo + hi) \div 2
             first == ReplaceItems(rs, t, lo, mid)
         IN  IF first = t THEN ReplaceItems(rs, t, mid + 1, hi)
             ELSE ReplaceItems(rs, first, mid + 1, hi)

Replacement_correct(rs, t) == ReplaceItems(rs, t, 1, Len(rs))

(***************************************************************************)
(* pandas: a DataFrame is its column labels, in order, and a column of     *)
(* cells for each label; all columns have the same number of rows.         *)
(***************************************************************************)
QUESTION == "question"

ANSWER == "answer"

Rows(df) == IF df.columns = <<>> THEN 0 ELSE Len(df.col[df.columns[1]])

\* data[[c1, ..., cn]]
Select(df, labels) ==
    [columns |-> labels, col |-> [c \in Range(labels) |-> df.col[c]]]

\* A DataFrame given as the value of one column stands for its only column.
Series(v) == v.col[v.columns[1]]

\* data[label] = series, done by pd.concat: the column is appended whether
\* or not the label exists.
AssignOneConcat(df, label, series) ==
    [columns |-> Append(df.columns, label), col |-> (label :> series) @@ df.col]

\* data[label] = series: an existing column is replaced where it stands, a
\* new one is appended.
AssignOne(df, label, series) ==
    [columns |-> IF label \in Range(df.columns) THEN df.columns
                 ELSE Append(df.columns, label),
     col |-> (label :> series) @@ df.col]

RECURSIVE assign(_, _)
\* data.assign(**changes), changes being the dict's items in order.
assign(df, changes) ==
    IF changes = <<>> THEN df
    ELSE assign(AssignOne(df, changes[1][1], changes[1][2]), Tail(changes))

\* data.values.flatten('F'): column by column.
flattenColumnMajor(df) ==
    Flatten([n \in 1..Len(df.columns) |-> df.col[df.columns[n]]])

\* data.values.flatten(): the cells row by row, each row in column order.
flatten(df) ==
    Flatten([r \in 1..Rows(df) |-> [n \in 1..Len(df.columns) |-> df.col[df.columns[n]][r]]])

(***************************************************************************)
(* The transformers.  A transformer is a record: its class and the fields  *)
(* its __init__ sets.                                                      *)
(***************************************************************************)
SerbianCyrillicToLatinTransformer == [class |-> "SerbianCyrillicToLatinTransformer"]

SpellCheckTransformer == [class |-> "SpellCheckTransformer"]

CapitalizeTransformer == [class |-> "CapitalizeTransformer"]

Replacement(rs) == [class |-> "Replacement", replacements |-> rs]

\* fixes if fixes else []
WordOccurence(fixes) == [class |-> "WordOccurence", fixes |-> fixes]

Column(processor, labels) == [class |-> "Column", processor |-> processor, columns |-> labels]

ListTransformer(ps) == [class |-> "ListTransformer", processors |-> ps]

\* self._serbian_cyrillic_to_latin or self._correct of a transformer whose
\* __call__ applies it to every cell.
Correct(t, s) ==
    CASE t.class = "SerbianCyrillicToLatinTransformer" -> serbian_cyrillic_to_latin(s)
      [] t.class = "CapitalizeTransformer" -> Capitalize_correct(s)
      [] t.class = "Replacement" -> Replacement_correct(t.replacements, s)

\* changes = {column: data[column].progress_apply(self._correct)
\*            for column in data.columns}
\* return data.assign(**changes)
ApplyToCells(t, df) ==
    assign(df, [n \in 1..Len(df.columns) |->
                   <<df.columns[n],
                     [r \in 1..Len(df.col[df.columns[n]]) |->
                         Correct(t, df.col[df.columns[n]][r])]>>])

\* SpellCheckTransformer.ERROR
ERROR == <<"_", "_", "E", "R", "R", "O", "R", "_", "_">>

\* self._pspell.suggest(text): the suggestions of the source, in order.
suggest(src, t) == IF t \in DOMAIN src THEN src[t] ELSE <<>>

\* SpellCheckTransformer._correct
SpellCheck_correct(src, t) ==
    IF suggest(src, t) = <<>> THEN ERROR ELSE Head(suggest(src, t))

\* v.mask(mask, other): other where mask is true.
Mask(v, mask, other) == [r \in 1..Len(v) |-> IF mask[r] THEN other[r] ELSE v[r]]

\* SpellCheckTransformer.__call__
SpellCheck_call(src, df) ==
    LET Corrected(c) == [r \in 1..Len(df.col[c]) |-> SpellCheck_correct(src, df.col[c][r])]
        IsError(c) == [r \in 1..Len(df.col[c]) |-> Corrected(c)[r] = ERROR]
        Sum(c) == Cardinality({r \in 1..Len(df.col[c]) : IsError(c)[r]})
    IN  [data |-> assign(df, [n \in 1..Len(df.columns) |->
                     <<df.columns[n],
                       Mask(Corrected(df.columns[n]), IsError(df.columns[n]), df.col[df.columns[n]])>>]),
         out |-> [n \in 1..Len(df.columns) |->
                     [print |-> "errors", column |-> df.columns[n],
                      errors |-> Sum(df.columns[n]), out_of |-> Len(df.col[df.columns[n]])]]]

RECURSIVE Count(_, _)
\* word_count[word] = word_count.get(word, 0) + 1 for every word of ws; the
\* dict keeps its keys in insertion order.
Count(word_count, ws) ==
    IF ws = <<>> THEN word_count
    ELSE LET word == Head(ws)
             at == {n \in 1..Len(word_count) : word_count[n][1] = word}
         IN  Count(IF at = {} THEN Append(word_count, <<word, 1>>)
                   ELSE [n \in 1..Len(word_count) |->
                            IF n \in at THEN <<word, word_count[n][2] + 1>> ELSE word_count[n]],
                   Tail(ws))

\* WordOccurence._ocurences
ocurences(df) ==
    LET series_concatenated == flatten(df)
    IN  Count(<<>>, Flatten([n \in 1..Len(series_concatenated) |-> words(series_concatenated[n])]))

RECURSIVE Filter(_, _)
\* {k: v for k, v in items if k not in fixes}
Filter(items, fixes) ==
    IF items = <<>> THEN <<>>
    ELSE (IF Head(items)[1] \in Range(fixes) THEN <<>> ELSE <<Head(items)>>)
         \o Filter(Tail(items), fixes)

\* One item put into a list sorted by descending count, behind the items
\* that count as much.
Insert(sorted, item) ==
    LET before == Cardinality({n \in 1..Len(sorted) : sorted[n][2] >= item[2]})
    IN  SubSeq(sorted, 1, before) \o <<item>> \o SubSeq(sorted, before + 1, Len(sorted))

RECURSIVE SortedFrom(_, _)
SortedFrom(sorted, items) ==
    IF items = <<>> THEN sorted ELSE SortedFrom(Insert(sorted, Head(items)), Tail(items))

\* sorted(items, key=lambda item: item[1], reverse=True): a stable sort.
sorted_by_count(items) == SortedFrom(<<>>, items)

\* WordOccurence.__call__
WordOccurence_call(t, df) ==
    [data |-> df,
     out |-> <<[print |-> "ocurences",
                json |-> sorted_by_count(Filter(ocurences(df), t.fixes))]>>]

\* for col in self._columns, but over every column of the data.
ColumnTargetsAll(t, df) == df.columns

\* for col in self._columns
ColumnTargets(t, df) == t.columns

\* for processor in self._processors, taken from the end of the list.
ProcessorFromEnd(ps, n) == ps[Len(ps) + 1 - n]

\* for processor in self._processors: the n-th of the list.
Processor(ps, n) == ps[n]

RECURSIVE Call(_, _, _)
RECURSIVE CallAll(_, _, _, _)
RECURSIVE CallColumns(_, _, _, _)

\* processor(data): the DataFrame returned and what was printed meanwhile.
Call(t, df, src) ==
    CASE t.class \in {"SerbianCyrillicToLatinTransformer", "CapitalizeTransformer", "Replacement"} ->
            [data |-> ApplyToCells(t, df), out |-> <<>>]
      [] t.class = "SpellCheckTransformer" -> SpellCheck_call(src, df)
      [] t.class = "WordOccurence" -> WordOccurence_call(t, df)
      [] t.class = "Column" ->
            LET done == CallColumns(t, df, src, 1)
            IN  [data |-> assign(df, done.changes), out |-> done.out]
      [] t.class = "ListTransformer" -> CallAll(t.processors, df, src, 1)

\* ListTransformer.__call__ from the n-th processor on.
CallAll(ps, df, src, n) ==
    IF n > Len(ps) THEN [data |-> df, out |-> <<>>]
    ELSE LET one == Call(Processor(ps, n), df, src)
             rest == CallAll(ps, one.data, src, n + 1)
         IN  [data |-> rest.data, out |-> one.out \o rest.out]

\* changes = {col: self._processor(data[[col]]) for col in self._columns},
\* from the n-th column of the list on.
CallColumns(t, df, src, n) ==
    IF n > Len(ColumnTargets(t, df)) THEN [changes |-> <<>>, out |-> <<>>]
    ELSE LET label == ColumnTargets(t, df)[n]
             one == Call(t.processor, Select(df, <<label>>), src)
             rest == CallColumns(t, df, src, n + 1)
         IN  [changes |-> <<<<label, Series(one.data)>>>> \o rest.changes,
              out |-> one.out \o rest.out]

mapping ==
    <<
      <<<<"G", "o", "d", "i", "n", "e">>, <<"g", "o", "d", "i", "n", "e">>>>,
      <<<<"r", "o", "s", "i", "j", "a", ",">>, <<"R", "o", "s", "i", "j", "a", ",">>>>,
      <<<<"v", "a", "l", "e", "n", "t", "i", "n">>, <<"V", "a", "l", "e", "n", "t", "i", "n">>>>,
      <<<<"b", "a", "n", "j", "a", "j">>, <<"B", "a", "n", "j", "a", "j">>>>,
      <<<<"d", "b", "p", "x", "x", "k", "a", "b", "e">>, <<"d", "r", "U+017E", "a", "v", "e">>>>,
      <<<<"r", "a", "h", "m", "o", "n">>, <<"R", "a", "h", "m", "o", "n">>>>,
      <<<<"s", "t", "i", "v", "e", "n">>, <<"S", "t", "i", "v", "e", "n">>>>,
      <<<<"o", "l", "i", "v", "e", "r">>, <<"O", "l", "i", "v", "e", "r">>>>,
      <<<<"i", "n", "j", "c", "a">>, <<"I", "n", "j", "c", "a">>>>,
      <<<<"U+201E">>, <<"\"">>>>,
      <<<<"U+201C">>, <<"\"">>>>,
      <<<<"a", "l", "U+017E", "i", "r">>, <<"A", "l", "U+017E", "i", "r">>>>,
      <<<<"\"", "\"">>, <<"\"">>>>,
      <<<<"j", "u", "s", "e", "f">>, <<"J", "u", "s", "e", "f">>>>,
      <<<<"h", "a", "t", "a", "v", "e", "j">>, <<"H", "a", "t", "a", "v", "e", "j">>>>,
      <<<<"h", "a", "l", "e">>, <<"H", "a", "l", "e">>>>,
      <<<<"f", "a", "j", "f", "e", "r">>, <<"F", "a", "j", "f", "e", "r">>>>,
      <<<<"n", "i", "k", "o", "l", "a">>, <<"N", "i", "k", "o", "l", "a">>>>,
      <<<<"e", "u", "r", "o", "s", "o", "n", "g">>, <<"E", "u", "r", "o", "s", "o", "n", "g">>>>,
      <<<<"s", "t", "e", "f", "a", "n">>, <<"S", "t", "e", "f", "a", "n">>>>,
      <<<<"d", "r", "a", "g", "a", "n">>, <<"D", "r", "a", "g", "a", "n">>>>,
      <<<<"j", "o", "v", "a", "n", "o", "v", "i", "U+0107">>, <<"J", "o", "v", "a", "n", "o", "v", "i", "U+0107">>>>,
      <<<<"a", "l", "e", "k", "s", "a", "n", "d", "a", "r">>, <<"A", "l", "e", "k", "s", "a", "n", "d", "a", "r">>>>,
      <<<<"u", "e", "f", "a">>, <<"U", "E", "F", "A">>>>,
      <<<<"j", "u", "g", "o", "s", "l", "a", "v", "i", "j", "e">>, <<"J", "u", "g", "o", "s", "l", "a", "v", "i", "j", "e">>>>,
      <<<<"v", "l", "a", "d", "i", "m", "i", "r">>, <<"V", "l", "a", "d", "i", "m", "i", "r">>>>,
      <<<<"a", "f", "r", "i", "c", "i">>, <<"A", "f", "r", "i", "c", "i">>>>,
      <<<<"a", "m", "e", "r", "i", "c", "i">>, <<"A", "m", "e", "r", "i", "c", "i">>>>,
      <<<<"n", "e", "m", "a", "U+010D", "k", "o", "j">>, <<"N", "e", "m", "a", "U+010D", "k", "o", "j">>>>,
      <<<<"i", "t", "a", "l", "i", "j", "i">>, <<"I", "t", "a", "l", "i", "j", "i">>>>,
      <<<<"p", "o", "p", "o", "v", "i", "U+0107">>, <<"P", "o", "p", "o", "v", "i", "U+0107">>>>,
      <<<<"e", "v", "r", "o", "p", "i">>, <<"E", "v", "r", "o", "p", "i">>>>,
      <<<<"a", "m", "e", "r", "i", "k", "e">>, <<"A", "m", "e", "r", "i", "k", "e">>>>,
      <<<<"n", "j", "u", "j", "o", "r", "k", "u">>, <<"N", "j", "u", "j", "o", "r", "k", "u">>>>,
      <<<<"i", "s", "i", "d", "o", "r", "a">>, <<"I", "s", "i", "d", "o", "r", "a">>>>,
      <<<<"p", "a", "n", "s", "a">>, <<"P", "a", "n", "s", "a">>>>,
      <<<<"z", "z", "i", "m", "m", "s", "k", "i", "m", "m">>, <<"z", "i", "m", "s", "k", "i", "m">>>>,
      <<<<"d", "i", "j", "e", "g", "o">>, <<"D", "i", "j", "e", "g", "o">>>>,
      <<<<"o", "d", "a", "n", "o", "v", "i", "U+0107">>, <<"O", "d", "a", "n", "o", "v", "i", "U+0107">>>>,
      <<<<"o", "l", "g", "o", "m">>, <<"O", "l", "g", "o", "m">>>>,
      <<<<"p", "i", "t", "e", "r", "s", "o", "n">>, <<"P", "i", "t", "e", "r", "s", "o", "n">>>>,
      <<<<"a", "n", "U+0111", "e", "l", "e", "s">>, <<"A", "n", "U+0111", "e", "l", "e", "s">>>>,
      <<<<"k", "e", "r", "b", "e", "r">>, <<"K", "e", "r", "b", "e", "r">>>>,
      <<<<"m", "a", "l", "i", "k">>, <<"M", "a", "l", "i", "k">>>>,
      <<<<"m", "o", "n", "r", "o">>, <<"M", "o", "n", "r", "o">>>>,
      <<<<"B", "u", " ">>, <<>>>>,
      <<<<"b", "e", "o", "g", "r", "a", "d", "u">>, <<"B", "e", "o", "g", "r", "a", "d", "u">>>>,
      <<<<"v", "e", "n", "e", "c", "u", "e", "l", "i">>, <<"V", "e", "n", "e", "c", "u", "e", "l", "i">>>>,
      <<<<"k", "e", "r", "t", "i", "s">>, <<"K", "e", "r", "t", "i", "s">>>>,
      <<<<"b", "r", "a", "n", "k", "a">>, <<"B", "r", "a", "n", "k", "a">>>>,
      <<<<"U+0107", "o", "p", "i", "U+0107", "a">>, <<"C", "U+0301", "o", "p", "i", "c", "U+0301", "a">>>>,
      <<<<"s", "k", "o", "r", "c", "e", "n", "i">>, <<"S", "k", "o", "r", "c", "e", "n", "i">>>>,
      <<<<"h", "o", "l", "a", "n", "d", "i", "j", "i">>, <<"H", "o", "l", "a", "n", "d", "i", "j", "i">>>>,
      <<<<"M", "a", "k", "s", " ", "p", "l", "a", "n", "k">>, <<"M", "a", "k", "s", " ", "P", "l", "a", "n", "k">>>>,
      <<<<"K", "i", "l", " ", "b", "i", "l">>, <<"K", "i", "l", " ", "B", "i", "l">>>>,
      <<<<"p", "e", "t", "k", "o", "v", "i", "U+0107", " ", "d", "i", "s">>, <<"P", "e", "t", "k", "o", "v", "i", "U+0107", " ", "D", "i", "s">>>>,
      <<<<"p", "e", "t", "k", "o", "v", "i", "U+0107">>, <<"P", "e", "t", "k", "o", "v", "i", "U+0107">>>>,
      <<<<"m", "a", "n", "r", "o">>, <<"M", "a", "n", "r", "o">>>>,
      <<<<"S", "t", "i", "v", "i", " ", "v", "o", "n", "d", "e", "r">>, <<"S", "t", "i", "v", "i", " ", "V", "o", "n", "d", "e", "r">>>>,
      <<<<"s", "k", "a", "n", "d", "i", "n", "a", "v", "i", "j", "i">>, <<"S", "k", "a", "n", "d", "i", "n", "a", "v", "i", "j", "i">>>>,
      <<<<"p", "r", "e", "l", "e", "v", "i", "U+0107">>, <<"P", "r", "e", "l", "e", "v", "i", "U+0107">>>>,
      <<<<"l", "j", "u", "b", "e", "k">>, <<"L", "j", "u", "b", "e", "k">>>>,
      <<<<"v", "i", "t", "m", "a", "n">>, <<"V", "i", "t", "m", "a", "n">>>>,
      <<<<"p", "i", "r", "s", "u">>, <<"P", "i", "r", "s", "u">>>>,
      <<<<"k", "r", "u", "n", "i", "U+0107">>, <<"K", "r", "u", "n", "i", "U+0107">>>>,
      <<<<"s", "a", "v", "e", "r", "i", "n">>, <<"S", "a", "v", "e", "r", "i", "n">>>>,
      <<<<"m", "j", "a", "n", "m", "a", "r", "u">>, <<"M", "j", "a", "n", "m", "a", "r", "u">>>>,
      <<<<"m", "a", "l", "d", "e", "n">>, <<"M", "a", "l", "d", "e", "n">>>>,
      <<<<"h", "o", "r", "n", "a", "s", "e", "k">>, <<"H", "o", "r", "n", "a", "s", "e", "k">>>>,
      <<<<"t", "i", "m", "o", "r", "a">>, <<"T", "i", "m", "o", "r", "a">>>>,
      <<<<"g", "o", "t", "j", "e", "u">>, <<"G", "o", "t", "j", "e", "u">>>>,
      <<<<"i", "v", "a", "n", "o", "v", "i", "U+0107">>, <<"I", "v", "a", "n", "o", "v", "i", "U+0107">>>>,
      <<<<"a", "u", "s", "t", "r", "a", "l", "i", "j", "i">>, <<"A", "u", "s", "t", "r", "a", "l", "i", "j", "i">>>>,
      <<<<"U+0161", "v", "e", "d", "s", "k", "o", "j">>, <<"U+0160", "v", "e", "d", "s", "k", "o", "j">>>>,
      <<<<"b", "o", "l", "p", "a", "U+010D", "i", "U+0107">>, <<"B", "o", "l", "p", "a", "U+010D", "i", "U+0107">>>>,
      <<<<"M", "o", "n", "a", " ", "L", "i", "z">>, <<"M", "o", "n", "a", " ", "L", "i", "z">>>>,
      <<<<"p", "a", "t", "r", "i", "k">>, <<"P", "a", "t", "r", "i", "k">>>>,
      <<<<"H", "a", "r", "i", "s">>, <<"H", "a", "r", "i", "s">>>>,
      <<<<"k", "a", "n", "a", "d", "a">>, <<"K", "a", "n", "a", "d", "a">>>>,
      <<<<"d", "e", " ", "U+017E", "a", "n", "e", "i", "r">>, <<"D", "e", " ", "U+017D", "a", "n", "e", "i", "r">>>>,
      <<<<"e", "l", "i", "o", "t">>, <<"E", "l", "i", "o", "t">>>>,
      <<<<"a", "f", "r", "i", "k", "e">>, <<"A", "f", "r", "i", "k", "e">>>>,
      <<<<"a", "n", "d", "r", "i", "U+0107", "a">>, <<"A", "n", "d", "r", "i", "U+0107", "a">>>>,
      <<<<" ", "\"">>, <<"\"">>>>,
      <<<<" ", "?">>, <<"?">>>>,
      <<<<" ", ".">>, <<".">>>>,
      <<<<" ", "!">>, <<"!">>>>,
      <<<<"\"", " ">>, <<"\"">>>>,
      <<<<"r", "o", "h", "a", "s">>, <<"R", "o", "h", "a", "s">>>>,
      <<<<"n", "a", "j", "r", "o", "b", "i", "j", "u">>, <<"N", "a", "j", "r", "o", "b", "i", "j", "u">>>>,
      <<<<"k", "r", "i", "s", "t", "i">>, <<"K", "r", "i", "s", "t", "i">>>>,
      <<<<"p", "e", "l", "a", "g", "i", "U+0107">>, <<"P", "e", "l", "a", "g", "i", "U+0107">>>>,
      <<<<"m", "a", "r", "i", "j", "a">>, <<"M", "a", "r", "i", "j", "a">>>>,
      <<<<"h", "a", "u", "e", "r">>, <<"H", "a", "u", "e", "r">>>>,
      <<<<"a", "n", "k", "e", "t", "i", "l">>, <<"A", "n", "k", "e", "t", "i", "l">>>>,
      <<<<"r", "a", "j", "h">>, <<"R", "a", "j", "h">>>>,
      <<<<"w", "i", "l", "h", "e", "l", "m">>, <<"W", "i", "l", "h", "e", "l", "m">>>>,
      <<<<"r", "e", "i", "c", "h">>, <<"R", "e", "i", "c", "h">>>>,
      <<<<"n", "e", "l", "e", " ", "k", "a", "r", "a", "j", "l", "i", "U+0107">>, <<"N", "e", "l", "e", " ", "K", "a", "r", "a", "j", "l", "i", "U+0107">>>>,
      <<<<"k", "a", "r", "a", "j", "l", "i", "U+0107">>, <<"K", "a", "r", "a", "j", "l", "i", "U+0107">>>>,
      <<<<"i", "r", "a", "n", "u">>, <<"I", "r", "a", "n", "u">>>>,
      <<<<"k", "o", "l", "u", "m", "b", "i", "j", "e">>, <<"K", "o", "l", "u", "m", "b", "i", "j", "e">>>>,
      <<<<"r", "e", "g", "a", "n">>, <<"R", "e", "g", "a", "n">>>>,
      <<<<"m", "a", "l", "t", "e", "z", "e">>, <<"M", "a", "l", "t", "e", "z", "e">>>>,
      <<<<"h", "a", "k", "s", "l", "i">>, <<"H", "a", "k", "s", "l", "i">>>>,
      <<<<"m", "a", "r", "t", "i", "n", "a">>, <<"M", "a", "r", "t", "i", "n", "a">>>>,
      <<<<"m", "i", "l", "o", "U+0161">>, <<"M", "i", "l", "o", "U+0161">>>>,
      <<<<"j", "o", "v", "i", "U+0107", "a">>, <<"J", "o", "v", "i", "U+0107", "a">>>>,
      <<<<"d", "e", "l", "o", "n">>, <<"D", "e", "l", "o", "n">>>>,
      <<<<"h", "o", "l", "a", "n", "d", "i", "j", "e">>, <<"H", "o", "l", "a", "n", "d", "i", "j", "e">>>>,
      <<<<"d", "u", "b", "r", "o", "v", "n", "i", "k">>, <<"D", "u", "b", "r", "o", "v", "n", "i", "k">>>>,
      <<<<"l", "a", "j", "o", "v", "i", "U+0107">>, <<"L", "a", "j", "o", "v", "i", "U+0107">>>>,
      <<<<"k", "a", "p", "o", "n", "e">>, <<"K", "a", "p", "o", "n", "e">>>>,
      <<<<"b", "e", "l", "g", "i", "j", "i">>, <<"B", "e", "l", "g", "i", "j", "i">>>>,
      <<<<"t", "o", "d", "o", "r", "o", "v", "i", "U+0107">>, <<"T", "o", "d", "o", "r", "o", "v", "i", "U+0107">>>>,
      <<<<"d", "a", " ", "g", "a", "m", "a">>, <<"d", "a", " ", "G", "a", "m", "a">>>>,
      <<<<"m", "a", "r", "i", "n", "o">>, <<"M", "a", "r", "i", "n", "o">>>>,
      <<<<"b", "o", "g", "a", "r", "t">>, <<"B", "o", "g", "a", "r", "t">>>>,
      <<<<"U+0107", "o", "p", "i", "U+0107">>, <<"U+0106", "o", "p", "i", "U+0107">>>>,
      <<<<"l", "o", "r", "e", "n", "s">>, <<"L", "o", "r", "e", "n", "s">>>>,
      <<<<"n", "u", "U+0161", "i", "U+0107">>, <<"N", "u", "U+0161", "i", "U+0107">>>>,
      <<<<"m", "o", "n", "t", "a", "n", "o">>, <<"M", "o", "n", "t", "a", "n", "o">>>>,
      <<<<"r", "a", "s", "p", "u", "U+0107", "i", "n">>, <<"R", "a", "s", "p", "u", "U+0107", "i", "n">>>>,
      <<<<"a", "r", "a", "b", "i", "j", "a">>, <<"A", "r", "a", "b", "i", "j", "a">>>>,
      <<<<"s", "p", "a", "s", "i", "U+0107">>, <<"S", "p", "a", "s", "i", "U+0107">>>>,
      <<<<"m", "e", "k", "r", "e">>, <<"M", "e", "k", "r", "e">>>>,
      <<<<"b", "a", "t", "a", " ", "U+017E", "i", "v", "o", "j", "i", "n", "o", "v", "i", "U+0107">>, <<"B", "a", "t", "a", " ", "U+017D", "i", "v", "o", "j", "i", "n", "o", "v", "i", "U+0107">>>>,
      <<<<"U+017E", "i", "v", "o", "j", "i", "n", "o", "v", "i", "U+0107">>, <<"U+017D", "i", "v", "o", "j", "i", "n", "o", "v", "i", "U+0107">>>>,
      <<<<"d", "U+017E", "o", "n", "s", "o", "n">>, <<"D", "U+017E", "o", "n", "s", "o", "n">>>>,
      <<<<"L", "o", "h", " ", "n", "e", "s">>, <<"L", "o", "h", " ", "N", "e", "s">>>>,
      <<<<"b", "a", "l", "t", "i", "m", "o", "r", "u">>, <<"B", "a", "l", "t", "i", "m", "o", "r", "u">>>>,
      <<<<"o", "b", "r", "a", "d", "o", "v", "i", "U+0107">>, <<"O", "b", "r", "a", "d", "o", "v", "i", "U+0107">>>>,
      <<<<"v", "a", "s", "i", "l", "j", "e", "v">>, <<"V", "a", "s", "i", "l", "j", "e", "v">>>>,
      <<<<"d", "e", " ", "s", "i", "k", "a">>, <<"d", "e", " ", "S", "i", "k", "a">>>>,
      <<<<"U+0161", "e", "k", "u", "l", "a", "r", "a", "c">>, <<"U+0160", "e", "k", "u", "l", "a", "r", "a", "c">>>>,
      <<<<"r", "a", "m", "a", "c", "o", "t", "i">>, <<"R", "a", "m", "a", "c", "o", "t", "i">>>>,
      <<<<"p", "e", "t", "r", "o", "v", "i", "U+0107">>, <<"P", "e", "t", "r", "o", "v", "i", "U+0107">>>>,
      <<<<"n", "j", "e", "g", "o", "U+0161">>, <<"N", "j", "e", "g", "o", "U+0161">>>>,
      <<<<"\"", "b", "a", "z", "\"">>, <<"\"", "B", "a", "z", "\"">>>>,
      <<<<"s", "t", "a", "n", "k", "o", "v", "i", "U+0107">>, <<"S", "t", "a", "n", "k", "o", "v", "i", "U+0107">>>>,
      <<<<"n", "i", "U+0161", "a", "v", "i">>, <<"N", "i", "U+0161", "a", "v", "i">>>>,
      <<<<"j", "a", "p", "a", "n", "u">>, <<"J", "a", "p", "a", "n", "u">>>>,
      <<<<"l", "e", "o", "n", "o", "v">>, <<"L", "e", "o", "n", "o", "v">>>>,
      <<<<"r", "e", "a", "l", " ", "m", "a", "d", "r", "i", "d">>, <<"R", "e", "a", "l", " ", "M", "a", "d", "r", "i", "d">>>>,
      <<<<"m", "a", "d", "r", "i", "d">>, <<"M", "a", "d", "r", "i", "d">>>>,
      <<<<"b", "e", "r", "l", "i", "n", "u">>, <<"B", "e", "r", "l", "i", "n", "u">>>>,
      <<<<"s", "u", "d", "a", "n">>, <<"S", "u", "d", "a", "n">>>>,
      <<<<"m", "e", "k", "s", "i", "k", "u">>, <<"M", "e", "k", "s", "i", "k", "u">>>>,
      <<<<"g", "o", "j", "k", "o", "v", "i", "U+0107">>, <<"G", "o", "j", "k", "o", "v", "i", "U+0107">>>>,
      <<<<"c", "u", "n", "e", " ", "g", "o", "j", "k", "o", "v", "i", "U+0107">>, <<"C", "u", "n", "e", " ", "G", "o", "j", "k", "o", "v", "i", "U+0107">>>>,
      <<<<"l", "u", "k", "s", "e", "m", "b", "u", "r", "g">>, <<"L", "u", "k", "s", "e", "m", "b", "u", "r", "g">>>>,
      <<<<"s", "a", "v", "i", "U+0107">>, <<"S", "a", "v", "i", "U+0107">>>>,
      <<<<"m", "a", "k", "i", "j", "a", "v", "e", "l", "i">>, <<"M", "a", "k", "i", "j", "a", "v", "e", "l", "i">>>>,
      <<<<"i", "n", "d", "i", "j", "e">>, <<"I", "n", "d", "i", "j", "e">>>>,
      <<<<"m", "i", "o", "n", "i", "c", "i">>, <<"M", "i", "o", "n", "i", "c", "i">>>>,
      <<<<"U+0161", "u", "b", "a", "U+0161", "i", "U+0107">>, <<"U+0160", "u", "b", "a", "U+0161", "i", "U+0107">>>>,
      <<<<"i", "n", "d", "o", "n", "e", "z", "i", "j", "e">>, <<"I", "n", "d", "o", "n", "e", "z", "i", "j", "e">>>>,
      <<<<"k", "o", "r", "a", "U+0107">>, <<"K", "o", "r", "a", "U+0107">>>>,
      <<<<"b", "o", "j", "a", "n", "i", "U+0107">>, <<"B", "o", "j", "a", "n", "i", "U+0107">>>>,
      <<<<"g", "i", "d", "r", "a">>, <<"G", "i", "d", "r", "a">>>>,
      <<<<"s", "t", "o", "k", "h", "o", "l", "m", "u">>, <<"S", "t", "o", "k", "h", "o", "l", "m", "u">>>>,
      <<<<"b", "i", "U+010D", "e", "r", " ", "s", "t", "o", "u">>, <<"B", "i", "U+010D", "e", "r", " ", "S", "t", "o", "u">>>>,
      <<<<"a", "u", "s", "t", "r", "a", "l", "i", "j", "e">>, <<"A", "u", "s", "t", "r", "a", "l", "i", "j", "e">>>>,
      <<<<"f", "i", "n", "s", "k", "o", "j">>, <<"F", "i", "n", "s", "k", "o", "j">>>>,
      <<<<"g", "a", "n", "d", "o", "l", "f", "i", "n", "i">>, <<"G", "a", "n", "d", "o", "l", "f", "i", "n", "i">>>>,
      <<<<"j", "o", "r", "o", "v", "i", "U+0107">>, <<"J", "o", "r", "o", "v", "i", "U+0107">>>>,
      <<<<"b", "u", "l", "a", "t", "o", "v", "i", "U+0107">>, <<"B", "u", "l", "a", "t", "o", "v", "i", "U+0107">>>>,
      <<<<"r", "o", "b", "e", "r", "t">>, <<"R", "o", "b", "e", "r", "t">>>>,
      <<<<"h", "u", "k", "u">>, <<"H", "u", "k", "u">>>>,
      <<<<"s", "t", "e", "n", "l", "i">>, <<"S", "t", "e", "n", "l", "i">>>>,
      <<<<"m", "e", "t", "j", "u", "z">>, <<"M", "e", "t", "j", "u", "z">>>>,
      <<<<"g", "a", "r", "a", "U+0161", "a", "n", "i", "n">>, <<"G", "a", "r", "a", "U+0161", "a", "n", "i", "n">>>>,
      <<<<"u", "e", "l", "b", "e", "k">>, <<"U", "e", "l", "b", "e", "k">>>>,
      <<<<"m", "i", "l", "u", "t", "i", "n", "o", "v", "i", "U+0107">>, <<"M", "i", "l", "u", "t", "i", "n", "o", "v", "i", "U+0107">>>>,
      <<<<"m", "i", "k", "a">>, <<"M", "i", "k", "a">>>>,
      <<<<"a", "n", "t", "i", "U+0107">>, <<"A", "n", "t", "i", "U+0107">>>>,
      <<<<"h", "o", "k", "i", "n", "g">>, <<"H", "o", "k", "i", "n", "g">>>>,
      <<<<"s", "p", "a", "r", "o", "u">>, <<"S", "p", "a", "r", "o", "u">>>>,
      <<<<"b", "o", "g", "o", "v", "i", "U+0107">>, <<"B", "o", "g", "o", "v", "i", "U+0107">>>>,
      <<<<"a", "r", "a", "n", "U+0111", "e", "l", "o", "v", "c">>, <<"A", "r", "a", "n", "U+0111", "e", "l", "o", "v", "c">>>>,
      <<<<"r", "u", "m", "u", "n", "i", "j", "e">>, <<"R", "u", "m", "u", "n", "i", "j", "e">>>>,
      <<<<"c", "a", "n", "i", "U+0107">>, <<"C", "a", "n", "i", "U+0107">>>>,
      <<<<"U+0161", "u", "m", "a", "n", "o", "v", "i", "U+0107">>, <<"U+0160", "u", "m", "a", "n", "o", "v", "i", "U+0107">>>>,
      <<<<"a", "r", "o", "n", "o", "f", "s", "k", "i">>, <<"A", "r", "o", "n", "o", "f", "s", "k", "i">>>>,
      <<<<"l", "a", "n", "d", "U+0161", "t", "a", "j", "n", "e", "r">>, <<"L", "a", "n", "d", "U+0161", "t", "a", "j", "n", "e", "r">>>>,
      <<<<"v", "e", "l", "i", "U+010D", "k", "o", "v", "i", "U+0107">>, <<"V", "e", "l", "i", "U+010D", "k", "o", "v", "i", "U+0107">>>>,
      <<<<"h", "a", "n", "e", "k", "e">>, <<"H", "a", "n", "e", "k", "e">>>>,
      <<<<"l", "o", "r", "e", "n">>, <<"L", "o", "r", "e", "n">>>>,
      <<<<"b", "u", "n", "j", "u", "e", "l">>, <<"B", "u", "n", "j", "u", "e", "l">>>>,
      <<<<"o", "'", "n", "i", "l">>, <<"O", "'", "n", "i", "l">>>>,
      <<<<"h", "a", "r", "i", "s", "o", "n">>, <<"H", "a", "r", "i", "s", "o", "n">>>>,
      <<<<"U+0161", "e", "k", "s", "p", "i", "r">>, <<"U+0160", "e", "k", "s", "p", "i", "r">>>>,
      <<<<"k", "u", "r", "d", "i", "s", "t", "a", "n", "a">>, <<"K", "u", "r", "d", "i", "s", "t", "a", "n", "a">>>>,
      <<<<"d", "i", "k", "e", "n", "s">>, <<"D", "i", "k", "e", "n", "s">>>>,
      <<<<"k", "a", "r", "e", "n", "j", "i", "n", "a">>, <<"K", "a", "r", "e", "n", "j", "i", "n", "a">>>>,
      <<<<"s", "i", "m", "o", "v", "i", "U+0107">>, <<"S", "i", "m", "o", "v", "i", "U+0107">>>>,
      <<<<"k", "a", "r", "a", "U+0111", "o", "r", "U+0111", "e", "v", "i", "U+0107">>, <<"K", "a", "r", "a", "U+0111", "o", "r", "U+0111", "e", "v", "i", "U+0107">>>>,
      <<<<"V", "a", "l", "e", "n", "t", "i", "n", "o", " ", "r", "o", "s", "i">>, <<"V", "a", "l", "e", "n", "t", "i", "n", "o", " ", "R", "o", "s", "i">>>>,
      <<<<"d", "U+017E", "o", "r", "d", "U+017E">>, <<"D", "U+017E", "o", "r", "d", "U+017E">>>>,
      <<<<"f", "e", "r", "a", "r", "i">>, <<"F", "e", "r", "a", "r", "i">>>>,
      <<<<"d", "U+017E", "i", "n", "o", "v", "i", "U+0107">>, <<"D", "U+017E", "i", "n", "o", "v", "i", "U+0107">>>>,
      <<<<"j", "a", "k", "U+0161", "i", "U+0107">>, <<"J", "a", "k", "U+0161", "i", "U+0107">>>>,
      <<<<"k", "o", "n", "a", "n">>, <<"K", "o", "n", "a", "n">>>>,
      <<<<"d", "o", "j", "l">>, <<"D", "o", "j", "l">>>>,
      <<<<"b", "e", "l", "g", "i", "j", "e">>, <<"B", "e", "l", "g", "i", "j", "e">>>>,
      <<<<"a", "n", "d", "r", "e", "s", "k", "u">>, <<"A", "n", "d", "r", "e", "s", "k", "u">>>>,
      <<<<"m", "o", "n", "t", "i", "j", "a">>, <<"M", "o", "n", "t", "i", "j", "a">>>>,
      <<<<"m", "o", "n", "t", "i", "j", "a", " ", "p", "a", "j", "t", "o", "n", "a">>, <<"M", "o", "n", "t", "i", "j", "a", " ", "P", "a", "j", "t", "o", "n", "a">>>>,
      <<<<"d", "r", "a", "v", "i", "U+0107">>, <<"D", "r", "a", "v", "i", "U+0107">>>>,
      <<<<"U+0161", "u", "p", "l", "j", "i", "k", "a", "c">>, <<"U+0160", "u", "p", "l", "j", "i", "k", "a", "c">>>>,
      <<<<"b", "e", "k", "u", "t", "a">>, <<"B", "e", "k", "u", "t", "a">>>>,
      <<<<"L", "e", "n", "i", " ", "k", "r", "a", "v", "i", "c">>, <<"L", "e", "n", "i", " ", "K", "r", "a", "v", "i", "c">>>>,
      <<<<"n", "a", "d", "a", "r", "e", "v", "i", "U+0107">>, <<"N", "a", "d", "a", "r", "e", "v", "i", "U+0107">>>>,
      <<<<"d", "o", "m", "a", "n", "o", "v", "i", "U+0107">>, <<"D", "o", "m", "a", "n", "o", "v", "i", "U+0107">>>>,
      <<<<"m", "i", "h", "a", "i", "l">>, <<"M", "i", "h", "a", "i", "l">>>>,
      <<<<"o", "b", "r", "e", "n", "o", "v", "i", "U+0107", "a">>, <<"O", "b", "r", "e", "n", "o", "v", "i", "U+0107", "a">>>>,
      <<<<"m", "e", "d", "v", "e", "d", "e", "v">>, <<"M", "e", "d", "v", "e", "d", "e", "v">>>>,
      <<<<"g", "u", "s", "t", "a", "v">>, <<"G", "u", "s", "t", "a", "v">>>>,
      <<<<"j", "u", "n", "g">>, <<"J", "u", "n", "g">>>>,
      <<<<"a", "n", "t", "o", "n", "i", "j", "e">>, <<"A", "n", "t", "o", "n", "i", "j", "e">>>>,
      <<<<"b", "u", "r", "s", "a", "U+0107">>, <<"B", "u", "r", "s", "a", "U+0107">>>>,
      <<<<"j", "a", "g", "o", "d", "i", "n", "i">>, <<"J", "a", "g", "o", "d", "i", "n", "i">>>>,
      <<<<"z", "a", "j", "e", "U+010D", "a", "r", "u">>, <<"Z", "a", "j", "e", "U+010D", "a", "r", "u">>>>,
      <<<<"v", "e", "n", "e", "c", "i", "j", "i">>, <<"V", "e", "n", "e", "c", "i", "j", "i">>>>,
      <<<<"b", "o", "g", "d", "a", "n", "o", "v", "i", "U+0107">>, <<"B", "o", "g", "d", "a", "n", "o", "v", "i", "U+0107">>>>,
      <<<<"z", "e", "m", "u", "n", "u">>, <<"Z", "e", "m", "u", "n", "u">>>>,
      <<<<"t", "o", "p", "a", "l", "o", "v", "i", "U+0107">>, <<"T", "o", "p", "a", "l", "o", "v", "i", "U+0107">>>>,
      <<<<"p", "u", "U+0161", "k", "i", "n">>, <<"P", "u", "U+0161", "k", "i", "n">>>>,
      <<<<"a", "z", "i", "j", "e">>, <<"A", "z", "i", "j", "e">>>>,
      <<<<"v", "e", "l", "a", "s", "k", "e", "z">>, <<"V", "e", "l", "a", "s", "k", "e", "z">>>>,
      <<<<"p", "e", "k", "i", "U+0107">>, <<"P", "e", "k", "i", "U+0107">>>>,
      <<<<"g", "v", "i", "n", "e", "j", "a">>, <<"G", "v", "i", "n", "e", "j", "a">>>>,
      <<<<"t", "o", "k", "i", "j", "u">>, <<"T", "o", "k", "i", "j", "u">>>>,
      <<<<"l", "a", "b", "o", "v", "i", "U+0107">>, <<"L", "a", "b", "o", "v", "i", "U+0107">>>>,
      <<<<"v", "e", "l", "e", "t", "a", "n", "l", "i", "U+0107">>, <<"V", "e", "l", "e", "t", "a", "n", "l", "i", "U+0107">>>>,
      <<<<"l", "a", "m", "p", "a", "r", "d">>, <<"L", "a", "m", "p", "a", "r", "d">>>>,
      <<<<"n", "a", "U+010D", "i", "U+0107">>, <<"N", "a", "U+010D", "i", "U+0107">>>>,
      <<<<"a", "m", "a", "d", "e", "u", "s">>, <<"A", "m", "a", "d", "e", "u", "s">>>>,
      <<<<"m", "o", "c", "a", "r", "t">>, <<"M", "o", "c", "a", "r", "t">>>>,
      <<<<"a", "n", "g", "e", "l", "o", "p", "u", "l", "o", "s">>, <<"A", "n", "g", "e", "l", "o", "p", "u", "l", "o", "s">>>>,
      <<<<"b", "u", "g", "a", "r", "s", "k", "o", "j">>, <<"B", "u", "g", "a", "r", "s", "k", "o", "j">>>>
    >>

\* list(mapping.values())
mapping_values == [n \in 1..Len(mapping) |-> mapping[n][2]]

general_transforms ==
    <<SerbianCyrillicToLatinTransformer, Replacement(mapping), WordOccurence(mapping_values)>>

\* {x + " ": "" for x in "ABVD5"}
answer_letters ==
    << <<<<"A", " ">>, <<>>>>, <<<<"B", " ">>, <<>>>>, <<<<"V", " ">>, <<>>>>,
       <<<<"D", " ">>, <<>>>>, <<<<"5", " ">>, <<>>>> >>

\* {'"': ""}
quote_removal == << <<<<"\"">>, <<>>>> >>

potera ==
    general_transforms
    \o <<Column(Replacement(answer_letters), <<ANSWER>>),
         Column(CapitalizeTransformer, <<ANSWER>>)>>

slagalica == <<CapitalizeTransformer, Replacement(quote_removal)>> \o general_transforms

\* processors.values(), each a ListTransformer's list
driver_processors == {potera, slagalica}

(***************************************************************************)
(* ListTransformer.__call__ on a DataFrame of the columns question and     *)
(* answer: one action for each class the next processor can be of.         *)
(***************************************************************************)
\* The DataFrames of at most maxrows rows whose cells are among cells.
Frames(cells, maxrows) ==
    {[columns |-> <<QUESTION, ANSWER>>, col |-> f] :
        f \in UNION {[{QUESTION, ANSWER} -> [1..r -> cells]] : r \in 0..maxrows}}

TextIdle ==
    /\ text = <<>>
    /\ text0 = <<>>
    /\ calls = 0
    /\ replacements = <<>>

\* Whether the for loop's next processor is of the class.
NextIs(class) ==
    /\ pc >= 1
    /\ pc <= Len(processors)
    /\ Processor(processors, pc).class = class

\* data = processor(data)
CallNext ==
    /\ LET returned == Call(Processor(processors, pc), data, pspell)
       IN  /\ data' = returned.data
           /\ stdout' = stdout \o returned.out
    /\ prev' = data
    /\ pc' = pc + 1
    /\ UNCHANGED <<data0, processors, pspell>>
    /\ UNCHANGED textVars

CallTransliteration ==
    /\ NextIs("SerbianCyrillicToLatinTransformer")
    /\ CallNext

CallSpellCheck ==
    /\ NextIs("SpellCheckTransformer")
    /\ CallNext

CallCapitalize ==
    /\ NextIs("CapitalizeTransformer")
    /\ CallNext

CallReplacement ==
    /\ NextIs("Replacement")
    /\ CallNext

CallWordOccurence ==
    /\ NextIs("WordOccurence")
    /\ CallNext

CallColumn ==
    /\ NextIs("Column")
    /\ CallNext

CallListTransformer ==
    /\ NextIs("ListTransformer")
    /\ CallNext

\* The cells of the input tables: an empty cell, two words, one word that
\* the first holds too, and a cell with a Cyrillic letter.
CellChoices ==
    { <<>>, <<"a", " ", "b">>, <<"b">>, <<"U+045A", " ", "c">> }

\* Suggestion sources: one that suggests for two cells, one whose first
\* suggestion is the text "__ERROR__", one that never suggests.
SourceChoices ==
    { (<<"b">> :> << <<"a", " ", "b">>, <<"b">> >>) @@ (<<"a", " ", "b">> :> << <<"c">> >>),
      (<<"b">> :> <<ERROR>>),
      <<>> }

\* The processor lists ListTransformer is built with.
ChainChoices ==
    { <<>>,
      <<CapitalizeTransformer, Replacement(answer_letters)>>,
      <<SerbianCyrillicToLatinTransformer,
        Replacement(<< <<<<"n", "j">>, <<"N", "j">>>>, <<<<"j", " ">>, <<"j">>>> >>),
        WordOccurence(<< <<"b">> >>)>>,
      <<WordOccurence(<<>>), WordOccurence(<< <<"b">> >>)>>,
      <<Column(CapitalizeTransformer, <<QUESTION>>),
        Column(Replacement(answer_letters), <<ANSWER>>)>>,
      <<SpellCheckTransformer>>,
      <<Column(SpellCheckTransformer, <<ANSWER>>), Column(WordOccurence(<<>>), <<QUESTION>>)>>,
      <<ListTransformer(<<SerbianCyrillicToLatinTransformer, CapitalizeTransformer>>),
        Column(ListTransformer(<<CapitalizeTransformer, Replacement(answer_letters)>>),
               <<ANSWER, QUESTION>>)>> }

RECURSIVE Uses(_, _)
\* Whether a processor of the class is in the list, at any depth.
Uses(ps, class) ==
    \E n \in 1..Len(ps) :
        \/ ps[n].class = class
        \/ ps[n].class = "Column" /\ Uses(<<ps[n].processor>>, class)
        \/ ps[n].class = "ListTransformer" /\ Uses(ps[n].processors, class)

Init ==
    /\ data0 \in Frames(CellChoices, MaxRows)
    /\ data = data0
    /\ prev = data0
    /\ processors \in ChainChoices
    /\ pc = 1
    /\ stdout = <<>>
    /\ pspell \in (IF Uses(processors, "SpellCheckTransformer") THEN SourceChoices ELSE {<<>>})
    /\ TextIdle

Next ==
    \/ CallTransliteration
    \/ CallSpellCheck
    \/ CallCapitalize
    \/ CallReplacement
    \/ CallWordOccurence
    \/ CallColumn
    \/ CallListTransformer

Spec == Init /\ [][Next]_vars

\* The cells of the driver's input files: an empty cell, a word in
\* typographic quotation marks (U+201E, U+201C), a word in ASCII quotation
\* marks, an answer behind its letter, and a Cyrillic word.
DriverCells ==
    { <<>>,
      <<"U+201E", "a", "U+201C">>,
      <<"\"", "a", "\"">>,
      <<"A", " ", "b">>,
      <<"U+045A", "U+0443">> }

\* data[[QUESTION, ANSWER]] of a file read, and the file's processor.
InitDriver ==
    /\ data0 \in Frames(DriverCells, MaxRows)
    /\ data = data0
    /\ prev = data0
    /\ processors \in driver_processors
    /\ pc = 1
    /\ stdout = <<>>
    /\ pspell = <<>>
    /\ TextIdle

NextDriver ==
    \/ CallTransliteration
    \/ CallCapitalize
    \/ CallReplacement
    \/ CallWordOccurence
    \/ CallColumn

SpecDriver == InitDriver /\ [][NextDriver]_vars

(***************************************************************************)
(* Text-level specifications: one method applied to one str.               *)
(***************************************************************************)
\* The frame-level variables while a text-level method runs alone.
NoFrame == [columns |-> <<>>, col |-> <<>>]

FrameIdle ==
    /\ data = NoFrame
    /\ data0 = NoFrame
    /\ prev = NoFrame
    /\ processors = <<>>
    /\ pc = 0
    /\ stdout = <<>>
    /\ pspell = <<>>

\* Every key of the transliteration table, and some characters that are none.
TranslitAlphabet == DOMAIN cyrillic_to_latin \cup {"a", "j", "U+0161", " "}

InitTranslit ==
    /\ text0 \in TextsUpTo(TranslitAlphabet, MaxTranslitLen)
    /\ text = text0
    /\ calls = 0
    /\ replacements = <<>>
    /\ FrameIdle

\* text = self._serbian_cyrillic_to_latin(text)
Transliterate ==
    /\ calls < 2
    /\ text' = serbian_cyrillic_to_latin(text)
    /\ calls' = calls + 1
    /\ UNCHANGED <<text0, replacements>>
    /\ UNCHANGED frameVars

SpecTranslit == InitTranslit /\ [][Transliterate]_vars

\* Letters with a one-to-one case pair, the sentence separator's characters
\* and U+0149, whose title-case form is the two characters U+02BC N.
SentenceAlphabet == {"a", "A", ".", " ", "U+0149"}

InitCapitalize ==
    /\ text0 \in TextsUpTo(SentenceAlphabet, MaxSentenceLen)
    /\ text = text0
    /\ calls = 0
    /\ replacements = <<>>
    /\ FrameIdle

\* text = CapitalizeTransformer._correct(text)
Capitalize ==
    /\ calls < 2
    /\ text' = Capitalize_correct(text)
    /\ calls' = calls + 1
    /\ UNCHANGED <<text0, replacements>>
    /\ UNCHANGED frameVars

SpecCapitalize == InitCapitalize /\ [][Capitalize]_vars

\* The rules a Replacement is built from here: one that creates the key of
\* another, one that differs from another only in case, one with an empty
\* value, one whose key overlaps itself and one with an empty key.
RuleChoices ==
    { <<<<"a">>, <<"b">>>>,
      <<<<"b">>, <<"A", "a">>>>,
      <<<<"A">>, <<"a">>>>,
      <<<<"a", "b">>, <<>>>>,
      <<<<"a", "a">>, <<"a">>>>,
      <<<<>>, <<"b">>>> }

\* dict keys are distinct.
DistinctKeys(rs) == \A m, n \in 1..Len(rs) : m # n => rs[m][1] # rs[n][1]

ReplaceAlphabet == {"a", "A", "b"}

InitReplace ==
    /\ text0 \in TextsUpTo(ReplaceAlphabet, MaxTextLen)
    /\ text = text0
    /\ calls = 0
    /\ replacements \in {rs \in TextsUpTo(RuleChoices, MaxRules) : DistinctKeys(rs)}
    /\ FrameIdle

\* text = Replacement(replacements)._correct(text)
Replace ==
    /\ calls < 1
    /\ text' = Replacement_correct(replacements, text)
    /\ calls' = calls + 1
    /\ UNCHANGED <<text0, replacements>>
    /\ UNCHANGED frameVars

SpecReplace == InitReplace /\ [][Replace]_vars

(***************************************************************************)
(* Properties of the text-level methods.                                   *)
(***************************************************************************)
\* C4: once a text has been transliterated, transliterating it again
\* returns it unchanged, no output character of the lookup table is a key
\* of the table, and a text that holds no key of the table is returned
\* unchanged by a single transliteration.  (SpecTranslit)
C4_TransliterationIdempotent ==
    /\ calls >= 1 => serbian_cyrillic_to_latin(text) = text
    /\ \A c \in DOMAIN cyrillic_to_latin :
           Range(Lookup(c)) \cap DOMAIN cyrillic_to_latin = {}
    /\ (calls = 1 /\ Range(text0) \cap DOMAIN cyrillic_to_latin = {}) => text = text0

\* A text with a two-letter expansion and a character outside the table
\* has been transliterated twice.
C4_Witness ==
    /\ calls = 2
    /\ text0 = <<"U+040A", "a">>
    /\ text = <<"N", "j", "a">>

\* A character whose case forms are single characters that map back and
\* forth consistently (every ASCII, Serbian Latin and Serbian Cyrillic
\* letter; not U+0149).
SimpleCased(char) ==
    /\ Len(Title(char)) = 1
    /\ Lower(Title(char)[1]) = Lower(char)
    /\ Title(Lower(char)) = Title(char)

SimpleCasedText(t) == \A j \in 1..Len(t) : SimpleCased(t[j])

\* C5 as stated: for any input text, CapitalizeTransformer._correct applied
\* to its own result returns that result.  (SpecCapitalize)
C5_IdempotentAnyText == calls >= 1 => Capitalize_correct(text) = text

\* C5 amended: for any input text whose characters all have simple case
\* forms, with any number of ". "-separated segments,
\* CapitalizeTransformer._correct applied to its own result returns that
\* result.  (SpecCapitalize)
C5_IdempotentSimpleCased ==
    (calls >= 1 /\ SimpleCasedText(text0)) => Capitalize_correct(text) = text

\* A two-segment text has been capitalized twice.
C5_Witness ==
    /\ calls = 2
    /\ text0 = <<"a", ".", " ", "a">>
    /\ text = <<"A", ".", " ", "A">>

\* A segment with its first character upper-cased and the others lower-cased.
UpperFirstLowerRest(seg) ==
    IF seg = <<>> THEN <<>>
    ELSE Title(Head(seg)) \o [j \in 1..(Len(seg) - 1) |-> Lower(seg[j + 1])]

\* The number of ". " separators of a text, counted from the left.
Separators(t) == Cardinality({p \in 1..Len(t) : At(t, PeriodSpace, p) /\ ~At(t, PeriodSpace, p - 1)})

SegmentwiseCapitalized(t) ==
    LET segs == split(t, PeriodSpace)
    IN  join(PeriodSpace, [j \in 1..Len(segs) |-> UpperFirstLowerRest(segs[j])])

\* C9 as stated: for any text, _correct returns the ". "-join of the
\* segments of the text split on ". ", each with its first character
\* upper-cased and its other characters lower-cased; empty segments and the
\* empty text give the empty string, and the number of separators is kept.
\* (SpecCapitalize)
C9_SegmentwiseAnyText ==
    calls = 1 =>
        /\ text = SegmentwiseCapitalized(text0)
        /\ Separators(text) = Separators(text0)

\* C9 amended: the same, for any text whose characters all have simple case
\* forms.  (SpecCapitalize)
C9_SegmentwiseSimpleCased ==
    (calls = 1 /\ SimpleCasedText(text0)) =>
        /\ text = SegmentwiseCapitalized(text0)
        /\ Separators(text) = Separators(text0)
        /\ (text0 = <<>> => text = <<>>)

\* A text ending in the separator (an empty last segment) has been
\* capitalized, its upper-case letter lowered.
C9_Witness ==
    /\ calls = 1
    /\ text0 = <<"a", "A", ".", " ">>
    /\ text = <<"A", "a", ".", " ">>

\* The positions at which a replaceAll of key k rewrites text t: the
\* occurrences of k that no earlier rewritten occurrence overlaps.
Rewritten(t, k) ==
    CHOOSE M \in SUBSET (1..(Len(t) + 1)) :
        \A p \in 1..(Len(t) + 1) :
            p \in M <=> /\ At(t, k, p)
                        /\ \A q \in M : ~(q < p /\ p < q + Len(k))

\* replaceAll(t, k, v): v at every rewritten occurrence of k, every other
\* character of t as it is.
ReplaceAll(t, k, v) ==
    LET M == Rewritten(t, k)
        Covered(p) == \E q \in M : q <= p /\ p < q + Len(k)
    IN  Flatten([p \in 1..(Len(t) + 1) |->
                    (IF p \in M THEN v ELSE <<>>)
                    \o (IF p <= Len(t) /\ ~Covered(p) THEN <<t[p]>> ELSE <<>>)])

RECURSIVE LeftFold(_, _, _)
\* replaceAll(...replaceAll(replaceAll(t, k1, v1), k2, v2)..., kn, vn)
LeftFold(rs, t, n) ==
    IF n = 0 THEN t
    ELSE ReplaceAll(LeftFold(rs, t, n - 1), rs[n][1], rs[n][2])

\* C6: Replacement._correct returns the left fold of replaceAll over the
\* mapping in mapping order, each rule rewriting every case-sensitive exact
\* occurrence of its key in the previous rule's output, and returns the
\* text unchanged for the empty mapping.  (SpecReplace)
C6_LeftFoldOfReplaceAll ==
    calls = 1 =>
        /\ text = LeftFold(replacements, text0, Len(replacements))
        /\ (replacements = <<>> => text = text0)

\* The first rule has created the key of the second, which has rewritten
\* it, and the upper-case A of the input has stayed.
C6_Witness ==
    /\ calls = 1
    /\ replacements = << <<<<"a">>, <<"b">>>>, <<<<"b">>, <<"A", "a">>>> >>
    /\ text0 = <<"a", "A", "a">>
    /\ text = <<"A", "a", "A", "A", "a">>

(***************************************************************************)
(* Properties of the transformers on DataFrames.                           *)
(***************************************************************************)
\* The processor ListTransformer.__call__ applied last.
Last == processors[pc - 1]

\* The single-column table that holds just column c of df.
SingleColumn(df, c) == [columns |-> <<c>>, col |-> (c :> df.col[c])]

\* The same column labels in the same order and the same number of rows.
SameShape(df, other) ==
    /\ df.columns = other.columns
    /\ DOMAIN df.col = DOMAIN other.col
    /\ \A c \in DOMAIN other.col : Len(df.col[c]) = Len(other.col[c])

\* C1: Column(inner, columns) returns a table in which every column not in
\* the list is cell for cell that of the input, every listed column is the
\* column the inner transformer returns for the single-column table of that
\* column, and the column order and the row count are those of the input.
C1_ColumnScoping ==
    (pc > 1 /\ Last.class = "Column") =>
        /\ SameShape(data, prev)
        /\ \A c \in Range(prev.columns) \ Range(Last.columns) : data.col[c] = prev.col[c]
        /\ \A c \in Range(Last.columns) :
               LET returned == Call(Last.processor, SingleColumn(prev, c), pspell).data
               IN  data.col[c] = returned.col[c]

\* Column(CapitalizeTransformer, [QUESTION]) has capitalized the question
\* and left an answer alone that CapitalizeTransformer would have changed.
C1_Witness ==
    /\ pc = 2
    /\ processors[1] = Column(CapitalizeTransformer, <<QUESTION>>)
    /\ prev.col[QUESTION] = << <<"a", " ", "b">> >>
    /\ data.col[QUESTION] = << <<"A", " ", "b">> >>
    /\ data.col[ANSWER] = << <<"a", " ", "b">> >>

RECURSIVE Composed(_, _, _, _)
\* tn(...t2(t1(df))...) for the first n transformers of ps, with what they
\* print, each once, in list order.
Composed(ps, n, df, src) ==
    IF n = 0 THEN [data |-> df, out |-> <<>>]
    ELSE LET before == Composed(ps, n - 1, df, src)
             one == Call(ps[n], before.data, src)
         IN  [data |-> one.data, out |-> before.out \o one.out]

\* C2: ListTransformer applies its transformers in list order, each once,
\* each to the previous one's output, none skipped: after n of them the
\* table is tn(...t2(t1(table))...) and the output is theirs in that order;
\* with an empty list the result is the input table.
C2_AppliedInListOrder ==
    /\ pc \in 1..(Len(processors) + 1)
    /\ data = Composed(processors, pc - 1, data0, pspell).data
    /\ stdout = Composed(processors, pc - 1, data0, pspell).out
    /\ (processors = <<>> => data = data0)

\* A list whose order matters has run to its end: the capitalized "A b"
\* has lost the answer letter the second transformer removes.
C2_Witness ==
    /\ pc = Len(processors) + 1
    /\ processors = <<CapitalizeTransformer, Replacement(answer_letters)>>
    /\ data0.col[QUESTION] = << <<"a", " ", "b">> >>
    /\ data.col[QUESTION] = << <<"b">> >>

\* C3: every transformer, and so every chain after any number of stages,
\* returns a table with the column names, the column order and the number
\* of rows of its input.
C3_ShapePreserved ==
    /\ SameShape(data, data0)
    /\ SameShape(data, prev)

\* A chain of a Column over a SpellCheckTransformer and a Column over a
\* WordOccurence has run to its end on two rows and changed a cell.
C3_Witness ==
    /\ pc = Len(processors) + 1
    /\ Uses(processors, "SpellCheckTransformer")
    /\ Uses(processors, "Column")
    /\ Rows(data) = 2
    /\ data # data0

\* C7 as stated: SpellCheckTransformer outputs the original value for the
\* cells the source has no suggestion for and the source's first suggestion
\* for every other cell, and the error count it prints for a column is the
\* number of its cells the source had no suggestion for.
C7_FallbackExactlyWhenNoSuggestion ==
    (pc > 1 /\ Last.class = "SpellCheckTransformer") =>
        \A n \in 1..Len(prev.columns) :
            LET c == prev.columns[n]
                none == {r \in 1..Len(prev.col[c]) : suggest(pspell, prev.col[c][r]) = <<>>}
                printed == stdout[Len(stdout) - Len(prev.columns) + n]
            IN  /\ \A r \in 1..Len(prev.col[c]) :
                       data.col[c][r] = IF r \in none THEN prev.col[c][r]
                                        ELSE Head(suggest(pspell, prev.col[c][r]))
                /\ printed.column = c
                /\ printed.errors = Cardinality(none)

\* The whitespace-delimited tokens of a text: its maximal runs of
\* characters that are not whitespace, from left to right.
Tokens(s) ==
    LET starts == {p \in 1..Len(s) : ~IsSpace(s[p]) /\ (p = 1 \/ IsSpace(s[p - 1]))}
        End(p) == CHOOSE q \in p..Len(s) :
                      /\ \A x \in p..q : ~IsSpace(s[x])
                      /\ (q = Len(s) \/ IsSpace(s[q + 1]))
        Nth(n) == CHOOSE p \in starts : Cardinality({x \in starts : x < p}) = n - 1
    IN  [n \in 1..Cardinality(starts) |-> SubSeq(s, Nth(n), End(Nth(n)))]

\* The tokens of all cells in the row-major flattening of the table.
RowMajorTokens(df) ==
    LET width == Len(df.columns)
        Cell(x) == df.col[df.columns[((x - 1) % width) + 1]][((x - 1) \div width) + 1]
    IN  Flatten([x \in 1..(Rows(df) * width) |-> Tokens(Cell(x))])

\* C8: the report WordOccurence prints holds exactly the tokens of all
\* cells that are not in the exclusion list, each with the number of its
\* occurrences in the whole table, by descending count, equal counts in the
\* order of first occurrence in the row-major flattening; the counts are
\* those of this call alone and the table returned is the input.
C8_WordOccurenceReport ==
    (pc > 1 /\ Last.class = "WordOccurence") =>
        LET report == stdout[Len(stdout)].json
            tokens == RowMajorTokens(prev)
            Occurrences(w) == Cardinality({p \in 1..Len(tokens) : tokens[p] = w})
            First(w) == CHOOSE p \in 1..Len(tokens) :
                            tokens[p] = w /\ \A q \in 1..(p - 1) : tokens[q] # w
        IN  /\ data = prev
            /\ {report[n][1] : n \in 1..Len(report)} = Range(tokens) \ Range(Last.fixes)
            /\ \A m, n \in 1..Len(report) : m # n => report[m][1] # report[n][1]
            /\ \A n \in 1..Len(report) : report[n][2] = Occurrences(report[n][1])
            /\ \A m, n \in 1..Len(report) :
                   m < n => \/ report[m][2] > report[n][2]
                            \/ /\ report[m][2] = report[n][2]
                               /\ First(report[m][1]) < First(report[n][1])

\* Two WordOccurence in a row on two rows: the first report ranks b (three
\* times) before the tie of a, U+045A and c in row-major order, the second
\* excludes b and counts the others once again, not twice.
C8_Witness ==
    /\ pc = 3
    /\ data0.col[QUESTION] = << <<"b">>, <<"U+045A", " ", "c">> >>
    /\ data0.col[ANSWER] = << <<"a", " ", "b">>, <<"b">> >>
    /\ stdout = << [print |-> "ocurences",
                    json |-> << <<<<"b">>, 3>>, <<<<"a">>, 1>>, <<<<"U+045A">>, 1>>, <<<<"c">>, 1>> >>],
                   [print |-> "ocurences",
                    json |-> << <<<<"a">>, 1>>, <<<<"U+045A">>, 1>>, <<<<"c">>, 1>> >>] >>

\* C10: after the whole slagalica.csv chain has run, no question or answer
\* cell holds the ASCII double quote.  (SpecDriver)
C10_NoDoubleQuoteAfterSlagalica ==
    (processors = slagalica /\ pc = Len(processors) + 1) =>
        \A c \in {QUESTION, ANSWER} :
            \A r \in 1..Len(data.col[c]) : "\"" \notin Range(data.col[c][r])

====
